---- MODULE Spec2Model ----
(***************************************************************************)
(* ApplicationTracker: the `add` command's fetch-and-extract pipeline.     *)
(*   src/app/scraping/fetch.py         fetch_url (tenacity retry wrapper)  *)
(*   src/app/scraping/parse_common.py  parse_job_from_html                 *)
(*   src/app/scraping/sites/*.py       per-site extractors                 *)
(*   src/app/cli/main.py               add                                 *)
(* Python str values are sequences of one-character strings, so slicing,   *)
(* strip, lower, title and substring search are computed, not assumed.     *)
(***************************************************************************)
EXTENDS Integers, Sequences, FiniteSets, TLC

(* ---------------------------------------------------------------------- *)
(* Python str operations                                                   *)
(* ---------------------------------------------------------------------- *)

\* s[:n]
Take(s, n) == SubSeq(s, 1, IF n <= Len(s) THEN n ELSE Len(s))

UpperChars == <<"A","B","C","D","E","F","G","H","I","J","K","L","M","N","O","P","Q","R","S","T","U","V","W","X","Y","Z">>

LowerChars == <<"a","b","c","d","e","f","g","h","i","j","k","l","m","n","o","p","q","r","s","t","u","v","w","x","y","z">>

DigitChars == <<"0","1","2","3","4","5","6","7","8","9">>

HexChars == <<"0","1","2","3","4","5","6","7","8","9","a","b","c","d","e","f","A","B","C","D","E","F">>

Range(s) == {s[i] : i \in 1..Len(s)}

\* c.isalpha()
IsAlpha(c) == c \in Range(UpperChars) \cup Range(LowerChars)

LowerChar(c) ==
    IF c \in Range(UpperChars) THEN LowerChars[CHOOSE i \in 1..Len(UpperChars) : UpperChars[i] = c]
    ELSE c

UpperChar(c) ==
    IF c \in Range(LowerChars) THEN UpperChars[CHOOSE i \in 1..Len(LowerChars) : LowerChars[i] = c]
    ELSE c

\* str.lower()
Lower(s) == [i \in 1..Len(s) |-> LowerChar(s[i])]

\* str.title(): a letter that follows a non-letter is upper-cased, the rest lower-cased
Title(s) ==
    [i \in 1..Len(s) |->
        IF ~IsAlpha(s[i]) THEN s[i]
        ELSE IF i > 1 /\ IsAlpha(s[i - 1]) THEN LowerChar(s[i])
        ELSE UpperChar(s[i])]

\* needle in s
IsSubstr(needle, s) ==
    \E i \in 0..(Len(s) - Len(needle)) : SubSeq(s, i + 1, i + Len(needle)) = needle

\* str.lstrip(cs)
LStripChars(s, cs) ==
    LET keep == {i \in 1..Len(s) : s[i] \notin cs}
    IN  IF keep = {} THEN <<>>
        ELSE SubSeq(s, CHOOSE i \in keep : \A j \in 1..(i - 1) : s[j] \in cs, Len(s))

\* str.rstrip(cs)
RStripChars(s, cs) ==
    LET keep == {i \in 1..Len(s) : s[i] \notin cs}
    IN  IF keep = {} THEN <<>>
        ELSE SubSeq(s, 1, CHOOSE i \in keep : \A j \in (i + 1)..Len(s) : s[j] \in cs)

\* str.strip()
Strip(s) == RStripChars(LStripChars(s, {" ", "\t", "\n"}), {" ", "\t", "\n"})

\* str.replace(a, b) for one-character a, b
ReplaceChar(s, a, b) == [i \in 1..Len(s) |-> IF s[i] = a THEN b ELSE s[i]]

\* str.split(sep) for a one-character sep: the pieces between consecutive separators
Split(s, sep) ==
    LET cuts == {i \in 1..Len(s) : s[i] = sep}
        n    == Cardinality(cuts)
        \* position of the k-th separator; 0 before the first, Len(s)+1 after the last
        cut(k) == IF k = 0 THEN 0
                  ELSE IF k = n + 1 THEN Len(s) + 1
                  ELSE CHOOSE i \in cuts : Cardinality({j \in cuts : j <= i}) = k
    IN  [k \in 1..(n + 1) |-> SubSeq(s, cut(k - 1) + 1, cut(k) - 1)]

\* [p for p in seq if p]
NonEmpty(seq) == SelectSeq(seq, LAMBDA p : p # <<>>)

RECURSIVE Join(_, _)
\* sep.join(parts)
Join(parts, sep) ==
    IF parts = <<>> THEN <<>>
    ELSE IF Len(parts) = 1 THEN parts[1]
    ELSE parts[1] \o sep \o Join(Tail(parts), sep)

\* every character of s is one of chars
AllIn(s, chars) == Range(s) \subseteq Range(chars)

(* ---------------------------------------------------------------------- *)
(* Python values: None, a str, or another truthy JSON value (a number)     *)
(* ---------------------------------------------------------------------- *)

None == [k |-> "none", s |-> <<>>]

Str(s) == [k |-> "str", s |-> s]

\* a JSON value that is neither null nor a string (e.g. the number 7): truthy, not sliceable
Num == [k |-> "num", s |-> <<>>]

IsStr(v) == v.k = "str"

\* bool(v)
Truthy(v) == v.k = "num" \/ (v.k = "str" /\ v.s # <<>>)

\* a or b
Or(a, b) == IF Truthy(a) THEN a ELSE b

\* the slice left out: the value passes through whole
CapNothing(v, n) == v

\* (v[:n] if isinstance(v, str) else v)
Cap(v, n) == IF IsStr(v) THEN Str(Take(v.s, n)) ELSE v

\* len(v) of a str value; any other value has no characters
StrLen(v) == IF IsStr(v) THEN Len(v.s) ELSE 0

(* ---------------------------------------------------------------------- *)
(* Field limits and retry policy                                           *)
(* ---------------------------------------------------------------------- *)

\* title[:300], employer[:300]
TextMax == 300

\* location[:255]
LocationMax == 255

\* stop_after_attempt(3)
MaxAttempts == 3

\* how far the long test strings exceed the limits
Excess == 1

LongText == [i \in 1..(TextMax + Excess) |-> "x"]

(* ---------------------------------------------------------------------- *)
(* URLs: urlparse, parse_qs, tldextract                                    *)
(* ---------------------------------------------------------------------- *)

MkUrl(scheme, netloc, path, query) ==
    [scheme |-> scheme, netloc |-> netloc, path |-> path, query |-> query]

\* https://careers.example.com/jobs/987654/senior-backend-engineer
UrlGeneric ==
    MkUrl(<<"h","t","t","p","s">>, <<"c","a","r","e","e","r","s",".","e","x","a","m","p","l","e",".","c","o","m">>, <<"/","j","o","b","s","/","9","8","7","6","5","4","/","s","e","n","i","o","r","-","b","a","c","k","e","n","d","-","e","n","g","i","n","e","e","r">>, <<>>)

\* the URLs add is given
Urls ==
    { \* https://boards.greenhouse.io/acme/jobs/12345
      MkUrl(<<"h","t","t","p","s">>, <<"b","o","a","r","d","s",".","g","r","e","e","n","h","o","u","s","e",".","i","o">>, <<"/","a","c","m","e","/","j","o","b","s","/","1","2","3","4","5">>, <<>>),
      \* https://careers.withacme.com/openings?gh_jid=4567
      MkUrl(<<"h","t","t","p","s">>, <<"c","a","r","e","e","r","s",".","w","i","t","h","a","c","m","e",".","c","o","m">>, <<"/","o","p","e","n","i","n","g","s">>, <<"g","h","_","j","i","d","=","4","5","6","7">>),
      \* https://recruiting.ultipro.com/ACM1000ACME/JobBoard/OpportunityDetail?opportunityId=77
      MkUrl(<<"h","t","t","p","s">>, <<"r","e","c","r","u","i","t","i","n","g",".","u","l","t","i","p","r","o",".","c","o","m">>, <<"/","A","C","M","1","0","0","0","A","C","M","E","/","J","o","b","B","o","a","r","d","/","O","p","p","o","r","t","u","n","i","t","y","D","e","t","a","i","l">>,
            <<"o","p","p","o","r","t","u","n","i","t","y","I","d","=","7","7">>),
      \* https://jobs.myultipro.com/job-board/1234/staff-nurse/apply : registrable domain
      \* myultipro.com
      MkUrl(<<"h","t","t","p","s">>, <<"j","o","b","s",".","m","y","u","l","t","i","p","r","o",".","c","o","m">>, <<"/","j","o","b","-","b","o","a","r","d","/","1","2","3","4","/","s","t","a","f","f","-","n","u","r","s","e","/","a","p","p","l","y">>, <<>>),
      \* https://www.linkedin.com/jobs/view/3912345678
      MkUrl(<<"h","t","t","p","s">>, <<"w","w","w",".","l","i","n","k","e","d","i","n",".","c","o","m">>, <<"/","j","o","b","s","/","v","i","e","w","/","3","9","1","2","3","4","5","6","7","8">>, <<>>),
      \* http://localhost:8000/jobs/42 : a host without a public suffix
      MkUrl(<<"h","t","t","p">>, <<"l","o","c","a","l","h","o","s","t",":","8","0","0","0">>, <<"/","j","o","b","s","/","4","2">>, <<>>),
      UrlGeneric }

\* urlparse(url).hostname: the netloc without a port, lower-cased
Hostname(u) == Lower(Split(u.netloc, ":")[1])

\* position of the first c in s, Len(s) + 1 when there is none
FirstChar(s, c) ==
    IF c \notin Range(s) THEN Len(s) + 1
    ELSE CHOOSE i \in 1..Len(s) : s[i] = c /\ \A j \in 1..(i - 1) : s[j] # c

\* parse_qs(query): the (key, value) pairs of the "key=value" pieces with a non-blank
\* value, in order
ParseQs(query) ==
    LET pieces  == NonEmpty(Split(query, "&"))
        pair(p) == [k |-> SubSeq(p, 1, FirstChar(p, "=") - 1),
                    v |-> SubSeq(p, FirstChar(p, "=") + 1, Len(p))]
    IN  SelectSeq([i \in 1..Len(pieces) |-> pair(pieces[i])], LAMBDA e : e.v # <<>>)

\* qs.get(key): the list of values of key (empty when absent)
QsGet(qs, key) ==
    LET hits == SelectSeq(qs, LAMBDA e : e.k = key) IN [i \in 1..Len(hits) |-> hits[i].v]

\* the split of a host name, given its labels: a host under a public suffix (com, io,
\* org) has the label before the suffix as domain; any other host (localhost) has its
\* last label as domain and no suffix
TldOfLabels(host, labels, n) ==
    IF labels[n] \in {<<"c","o","m">>, <<"i","o">>, <<"o","r","g">>}
    THEN [subdomain |-> IF n >= 3 THEN Join(SubSeq(labels, 1, n - 2), <<".">>) ELSE <<>>,
          domain    |-> IF n >= 2 THEN labels[n - 1] ELSE <<>>,
          suffix    |-> labels[n]]
    ELSE [subdomain |-> IF n >= 2 THEN Join(SubSeq(labels, 1, n - 1), <<".">>) ELSE <<>>,
          domain    |-> labels[n],
          suffix    |-> <<>>]

\* tldextract.extract(host): subdomain, domain, suffix
TldExtract(host) == TldOfLabels(host, Split(host, "."), Len(Split(host, ".")))

\* _extract_source_site(url): the registrable domain when there is one, else the URL
\* itself
ExtractSourceSite(u) ==
    LET ext == TldExtract(Hostname(u))
    IN  IF ext.domain # <<>> /\ ext.suffix # <<>>
        THEN ext.domain \o <<".">> \o ext.suffix
        ELSE u.scheme \o <<":","/","/">> \o u.netloc \o u.path
                \o (IF u.query = <<>> THEN <<>> ELSE <<"?">> \o u.query)

(* ---------------------------------------------------------------------- *)
(* Page content. A response text is the name of a document; Soup(text) is  *)
(* what BeautifulSoup(text, "lxml") and the raw-markup regexes find in it. *)
(* ---------------------------------------------------------------------- *)

\* "@type": a string, or a list of strings
TypeIs(name) == [list |-> FALSE, names |-> {name}]

\* "hiringOrganization": {"name": name}
Org(name) == [dict |-> TRUE, name |-> name]

\* "hiringOrganization" absent, or not an object
NoOrg == [dict |-> FALSE, name |-> None]

\* "jobLocation": {"address": {"addressLocality": .., "addressRegion": .., "addressCountry": ..}}
Address(locality, region, country) ==
    [dict |-> TRUE, addr |-> TRUE, locality |-> locality, region |-> region, country |-> country]

\* "jobLocation" absent, or not an object
NoLocation ==
    [dict |-> FALSE, addr |-> FALSE, locality |-> None, region |-> None, country |-> None]

\* one node of a JSON-LD block
LdNode(typ, title, name, org, datePosted, loc) ==
    [dict |-> TRUE, typ |-> typ, title |-> title, name |-> name, org |-> org,
     datePosted |-> datePosted, jobLocation |-> loc]

\* <script type="application/ld+json">: json.loads succeeds or raises; nodes are the
\* objects its text spells out either way
LdBlock(nodes) == [parses |-> TRUE, nodes |-> nodes]

\* a <script> body as the UltiPro regexes see it: the title-key matches in order,
\* the first CompanyName match and the first hiringOrganization name match
Script(titleHits, company, orgName) ==
    [titleHits |-> titleHits, company |-> company, orgName |-> orgName]

H(tag, text) == [tag |-> tag, text |-> text]

BlankDoc ==
    [ld |-> <<>>, headings |-> <<>>, ogTitle |-> None, twTitle |-> None,
     titleTag |-> None, ogSiteName |-> None, oppTitle |-> None, bindTitle |-> None,
     rawOppTitle |-> None, rawBindTitle |-> None, scripts |-> <<>>,
     shellMarker |-> FALSE, titleHook |-> FALSE]

\* the documents the network can return, by response text
Documents ==
    [
     \* JobPosting "Engineer" at "Acme Inc" in Austin; the page heading says something else
     ld_engineer |->
         [BlankDoc EXCEPT
             !.ld = << LdBlock(<< LdNode(TypeIs("JobPosting"), Str(<<"E","n","g","i","n","e","e","r">>), None,
                                         Org(Str(<<"A","c","m","e"," ","I","n","c">>)), Str(<<"2","0","2","4","-","0","5","-","0","1">>),
                                         Address(None, Str(<<"T","X">>), Str(<<"U","S">>))) >>) >>,
             !.headings = << H("h1", <<"W","e"," ","A","r","e"," ","H","i","r","i","n","g">>) >>,
             !.ogTitle = Str(<<"J","o","i","n"," ","U","s">>),
             !.ogSiteName = Str(<<"C","a","r","e","e","r","s"," ","S","i","t","e">>)],
     \* JobPosting with a title (under "name") and no hiring organization; og:site_name present
     ld_title_only |->
         [BlankDoc EXCEPT
             !.ld = << [LdBlock(<<>>) EXCEPT !.parses = FALSE],   \* json.loads raises
                       LdBlock(<< [LdNode(TypeIs("-"), None, None, NoOrg, None, NoLocation)
                                 EXCEPT !.dict = FALSE],   \* a list element that is not an object
                                  LdNode(TypeIs("Organization"), None, Str(<<"O","r","g"," ","P","a","g","e">>), NoOrg,
                                         None, NoLocation),
                                  LdNode([list |-> TRUE, names |-> {"Thing", "JobPosting"}], None, Str(<<"A","n","a","l","y","s","t">>),
                                         NoOrg, None, NoLocation) >>) >>,
             !.headings = << H("h1", <<"O","p","e","n"," ","R","o","l","e","s">>) >>,
             !.ogSiteName = Str(<<"G","l","o","b","e","x">>)],
     \* two JobPosting nodes; heading and og:title say something else
     ld_two |->
         [BlankDoc EXCEPT
             !.ld = << LdBlock(<< LdNode(TypeIs("JobPosting"), Str(<<"N","u","r","s","e">>), None,
                                         Org(Str(<<"M","e","r","c","y">>)), None, NoLocation),
                                  LdNode(TypeIs("JobPosting"), Str(<<"E","n","g","i","n","e","e","r">>), None,
                                         Org(Str(<<"A","c","m","e"," ","I","n","c">>)), None, NoLocation) >>) >>,
             !.headings = << H("h1", <<"H","i","r","i","n","g"," ","N","o","w">>) >>,
             !.ogTitle = Str(<<"H","i","r","i","n","g"," ","N","o","w">>)],
     \* JobPosting node without title, name or hiring organization
     ld_blank |->
         [BlankDoc EXCEPT
             !.ld = << LdBlock(<< LdNode(TypeIs("JobPosting"), None, Str(<<>>), NoOrg, None,
                                         NoLocation) >>) >>,
             !.headings = << H("h1", <<"S","t","a","f","f"," ","N","u","r","s","e">>) >>,
             !.ogSiteName = Str(<<"M","e","r","c","y">>)],
     \* JobPosting whose fields exceed the limits, and one with a non-string title
     ld_long |->
         [BlankDoc EXCEPT
             !.ld = << LdBlock(<< LdNode(TypeIs("JobPosting"), Str(LongText), None,
                                         Org(Str(LongText)), None,
                                         Address(Str([i \in 1..(LocationMax + Excess) |-> "y"]), None, None)) >>) >>],
     ld_number |->
         [BlankDoc EXCEPT
             !.ld = << LdBlock(<< LdNode(TypeIs("JobPosting"), Num, None, Org(Num), None,
                                         Address(Num, None, None)) >>) >>],
     \* UltiPro JS shell: placeholder heading, company name in a script blob
     ulti_shell |->
         [BlankDoc EXCEPT
             !.headings = << H("h1", <<"J","o","b"," ","D","e","t","a","i","l","s">>) >>,
             !.titleTag = Str(<<"U","K","G"," ","P","r","o">>),
             !.scripts = << Script(<< <<"O","p","p","o","r","t","u","n","i","t","y"," ","D","e","t","a","i","l">> >>, Str(<<"M","e","r","c","y"," ","H","e","a","l","t","h">>), None) >>,
             !.shellMarker = TRUE],
     \* UltiPro page rendered with its title hook; og:site_name is the platform's name
     ulti_title |->
         [BlankDoc EXCEPT
             !.ogTitle = Str(<<"J","o","b"," ","D","e","t","a","i","l","s">>),
             !.headings = << H("h2", <<" ","O","p","p","o","r","t","u","n","i","t","y"," ">>), H("h1", <<"R","e","g","i","s","t","e","r","e","d"," ","N","u","r","s","e">>) >>,
             !.oppTitle = Str(<<"R","e","g","i","s","t","e","r","e","d"," ","N","u","r","s","e">>),
             !.rawOppTitle = Str(<<"R","e","g","i","s","t","e","r","e","d"," ","N","u","r","s","e">>),
             !.ogSiteName = Str(<<"U","l","t","i","P","r","o">>),
             !.scripts = << Script(<<>>, Str(<<"U","l","t","i","P","r","o"," ","D","e","m","o">>), Str(<<"M","e","r","c","y"," ","H","e","a","l","t","h">>)) >>,
             !.titleHook = TRUE],
     \* UltiPro page whose only title is in the raw data-bind markup, with over-long values
     ulti_long |->
         [BlankDoc EXCEPT
             !.ogSiteName = Str(LongText),
             !.rawBindTitle = Str(LongText),
             !.titleHook = TRUE],
     \* plain page: over-long heading and site name
     plain_long |->
         [BlankDoc EXCEPT
             !.headings = << H("h2", <<"M","e","n","u">>), H("h1", LongText) >>,
             !.ogSiteName = Str(LongText)],
     \* plain page: only a <title>
     title_tag |->
         [BlankDoc EXCEPT !.titleTag = Str(<<"D","a","t","a"," ","A","n","a","l","y","s","t"," ","-"," ","E","x","a","m","p","l","e"," ","C","o","r","p"," ","|"," ","C","a","r","e","e","r","s">>)],
     \* LinkedIn page: a JSON-LD script that json.loads rejects (a raw line break inside
     \* a string) and whose text names a JobPosting, its title and its organization
     li_posting |->
         [BlankDoc EXCEPT
             !.ld = << [LdBlock(<< LdNode(TypeIs("JobPosting"), Str(<<"P","r","o","d","u","c","t"," ","M","a","n","a","g","e","r">>), None,
                                          Org(Str(<<"L","i","n","k","e","d","I","n">>)), None, NoLocation) >>)
                          EXCEPT !.parses = FALSE] >>,
             !.scripts = << Script(<<>>, Str(<<"I","n","i","t","e","c","h">>), None) >>,
             !.headings = << H("h1", <<"S","i","g","n"," ","i","n">>) >>],
     \* proxy-reader text: no markup at all
     reader_text |->
         BlankDoc ]

\* BeautifulSoup(text, "lxml"); "" and any other text have no markup
Soup(text) == IF text \in DOMAIN Documents THEN Documents[text] ELSE BlankDoc

\* bodies of the job URL (direct and session requests)
PageTexts ==
    {"ld_engineer", "ld_title_only", "ld_two", "ld_blank", "ld_long", "ld_number",
     "ulti_shell", "ulti_title", "ulti_long", "plain_long", "title_tag", "li_posting"}

\* bodies a proxy reader or the headless browser returns
ReaderTexts == {"", "reader_text", "ulti_title", "ulti_shell", "ulti_long"}

(* ---------------------------------------------------------------------- *)
(* Extraction tiers                                                        *)
(* ---------------------------------------------------------------------- *)

\* the dict parse_job_from_html returns
Result(title, employer, datePosted, location, u) ==
    [title |-> title, employer |-> employer, date_posted |-> datePosted,
     location |-> location, source_site |-> ExtractSourceSite(u)]

\* the first of a set of positions, 0 when there is none
FirstOf(S) == IF S = {} THEN 0 ELSE CHOOSE i \in S : \A j \in S : i <= j

RECURSIVE Flatten(_)
Flatten(seqs) == IF seqs = <<>> THEN <<>> ELSE Head(seqs) \o Flatten(Tail(seqs))

\* the @type test of the JSON-LD loop
IsJobPosting(node) ==
    /\ node.dict
    /\ IF node.typ.list THEN "JobPosting" \in node.typ.names
                        ELSE node.typ.names = {"JobPosting"}

\* the nodes the JSON-LD loop would return on, in document order: the nodes of every
\* block that json.loads accepts, filtered by the @type test
JobPostings(soup) ==
    SelectSeq(Flatten([i \in 1..Len(soup.ld) |->
                          IF soup.ld[i].parses THEN soup.ld[i].nodes ELSE <<>>]),
              IsJobPosting)

\* the result built from one JobPosting node; its location is the first non-empty of
\* locality, region, country
FromJobPosting(node, u) ==
    Result(Cap(Or(node.title, node.name), TextMax),
           Cap(IF node.org.dict THEN node.org.name ELSE None, TextMax),
           node.datePosted,
           Cap(LET jl == node.jobLocation
               IN  IF jl.dict /\ jl.addr THEN Or(jl.locality, Or(jl.region, jl.country))
                   ELSE None,
               LocationMax),
           u)

\* _clean(text)
Clean(v) ==
    LET s == Strip(v.s)
    IN  IF ~Truthy(v) \/ s = <<>> THEN None ELSE Str(Take(s, TextMax))

\* _is_generic_title(val) of sites/ultipro.py
IsGenericTitle(val) ==
    LET low == Lower(val)
    IN  \/ IsSubstr(<<"o","p","p","o","r","t","u","n","i","t","y"," ","d","e","t","a","i","l">>, low)
        \/ low \in {<<"u","k","g"," ","p","r","o">>, <<"j","o","b"," ","d","e","t","a","i","l","s">>, <<"o","p","p","o","r","t","u","n","i","t","y">>, <<"j","o","b">>}
        \/ IsSubstr(<<"u","n","s","u","p","p","o","r","t","e","d"," ","b","r","o","w","s","e","r">>, low)

\* the title sources of parse_ultipro_from_html, in the order they are tried
UltiproTitleSources(soup) ==
    << soup.ogTitle, soup.twTitle >>
        \o [i \in 1..Len(soup.headings) |-> Str(soup.headings[i].text)]
        \o << soup.oppTitle, soup.bindTitle, soup.rawOppTitle, soup.rawBindTitle >>
        \o Flatten([i \in 1..Len(soup.scripts) |->
                      [j \in 1..Len(soup.scripts[i].titleHits) |->
                          Str(soup.scripts[i].titleHits[j])]])

\* the script-embedded employer sources, in the order they are tried
UltiproEmployerSources(soup) ==
    Flatten([i \in 1..Len(soup.scripts) |->
                << soup.scripts[i].company, soup.scripts[i].orgName >>])

\* the cleaned i-th source, None for i = 0
CleanAt(seq, i) == IF i = 0 THEN None ELSE Clean(seq[i])

\* the first accepted title source, cleaned:
\* cand = _clean(..); cand and not _is_generic_title(cand)
FirstTitle(seq) ==
    CleanAt(seq, FirstOf({i \in 1..Len(seq) :
                             Truthy(Clean(seq[i])) /\ ~IsGenericTitle(Clean(seq[i]).s)}))

\* the first accepted script employer, cleaned:
\* cand = _clean(..); cand and "ultipro" not in cand.lower()
FirstEmployer(seq) ==
    CleanAt(seq, FirstOf({i \in 1..Len(seq) :
                             /\ Truthy(Clean(seq[i]))
                             /\ ~IsSubstr(<<"u","l","t","i","p","r","o">>, Lower(Clean(seq[i]).s))}))

\* parse_ultipro_from_html(html, url)
ParseUltipro(soup) ==
    [title    |-> FirstTitle(UltiproTitleSources(soup)),
     employer |-> Or(Clean(soup.ogSiteName),
                     FirstEmployer(UltiproEmployerSources(soup)))]

\* position of the first occurrence of sep in s, 0 when absent
Find(s, sep) ==
    IF IsSubstr(sep, s) /\ Len(sep) <= Len(s)
    THEN FirstOf({i \in 1..(Len(s) - Len(sep) + 1) : SubSeq(s, i, i + Len(sep) - 1) = sep})
    ELSE 0

\* s.split(sep)[0].strip()
BeforeFirst(s, sep) ==
    LET at == Find(s, sep) IN Strip(IF at = 0 THEN s ELSE SubSeq(s, 1, at - 1))

\* " | ", " - ", and the en and em dash between spaces (a dash is one character)
TitleSeparators ==
    << <<" ", "|", " ">>, <<" ", "-", " ">>, <<" ", "&ndash;", " ">>, <<" ", "&mdash;", " ">> >>

\* the separators of the <title> loop that occur in full with a non-empty text before them
SeparatorsHit(full) ==
    {k \in 1..Len(TitleSeparators) :
        Find(full, TitleSeparators[k]) # 0 /\ BeforeFirst(full, TitleSeparators[k]) # <<>>}

\* 3a) the title taken from the <title> text
TitleFromTitleTag(full) ==
    IF SeparatorsHit(full) # {}
    THEN Str(Take(BeforeFirst(full, TitleSeparators[FirstOf(SeparatorsHit(full))]), TextMax))
    ELSE IF full # <<>> THEN Str(full)
    ELSE None

SkipSegments ==
    {<<"j","o","b","s">>, <<"j","o","b">>, <<"j","o","b","b","o","a","r","d">>, <<"o","p","p","o","r","t","u","n","i","t","y","d","e","t","a","i","l">>, <<"c","a","r","e","e","r","s">>, <<"e","n">>,
     <<"e","n","-","u","s">>, <<"e","n","_","u","s">>, <<"e","n","-","U","S">>, <<"e","n","_","U","S">>}

\* re.fullmatch(r"[rR]?\d{4,}", seg)
IsIdSegment(seg) ==
    \/ Len(seg) >= 4 /\ AllIn(seg, DigitChars)
    \/ Len(seg) >= 5 /\ seg[1] \in {"r", "R"} /\ AllIn(Tail(seg), DigitChars)

\* _is_guid_like(seg)
IsGuidLike(seg) ==
    \/ /\ Len(seg) = 36
       /\ \A i \in 1..36 : IF i \in {9, 14, 19, 24} THEN seg[i] = "-"
                            ELSE seg[i] \in Range(HexChars)
    \/ LET compact == SelectSeq(seg, LAMBDA c : c \notin {"-", "_"})
       IN  Len(compact) >= 16 /\ AllIn(compact, HexChars)

\* s is long enough, upper-case, and has a letter and a digit
IsUpperMixed(s) ==
    /\ Len(s) >= 6
    /\ [i \in 1..Len(s) |-> UpperChar(s[i])] = s
    /\ \E i \in 1..Len(s) : IsAlpha(s[i])
    /\ \E i \in 1..Len(s) : s[i] \in Range(DigitChars)

\* _is_upper_alnum_token(seg)
IsUpperAlnumToken(seg) == IsUpperMixed(SelectSeq(seg, LAMBDA c : IsAlpha(c) \/ c \in Range(DigitChars)))

\* [p for p in (parsed.path or "/").strip("/").split("/") if p]
PathParts(u) ==
    NonEmpty(Split(u.path, "/"))

\* the filter of the slug candidates
KeepSegment(p) ==
    /\ Lower(p) \notin SkipSegments
    /\ ~IsIdSegment(p)
    /\ ~IsGuidLike(p)
    /\ ~IsUpperAlnumToken(p)

HasDash(p) == "-" \in Range(p) \/ "_" \in Range(p)

\* the last candidate whether or not another one has a hyphen or underscore
PickSegmentLast(candidates) ==
    IF candidates # <<>> THEN candidates[Len(candidates)] ELSE <<>>

\* the last candidate with a hyphen or underscore, else the last candidate, else nothing
PickSegment(candidates) ==
    IF \E i \in 1..Len(candidates) : HasDash(candidates[i])
    THEN candidates[CHOOSE i \in 1..Len(candidates) :
                        /\ HasDash(candidates[i])
                        /\ \A j \in (i + 1)..Len(candidates) : ~HasDash(candidates[j])]
    ELSE IF candidates # <<>> THEN candidates[Len(candidates)]
    ELSE <<>>

\* 3c) the title derived from the URL path: raw.title()[:300] when raw is not empty
SlugTitle(u) ==
    LET raw == Strip(ReplaceChar(ReplaceChar(
                   PickSegment(SelectSeq(PathParts(u), KeepSegment)), "-", " "), "_", " "))
    IN  IF raw # <<>> THEN Str(Take(Title(raw), TextMax)) ELSE None

\* `if not a: if <b found>: a = b`: b is only ever assigned when truthy
Fill(a, b) == IF ~Truthy(a) /\ Truthy(b) THEN b ELSE a

\* h1.get_text(strip=True)[:300] of the first <h1>
H1Title(soup) ==
    LET i == FirstOf({i \in 1..Len(soup.headings) : soup.headings[i].tag = "h1"})
    IN  IF i = 0 THEN None ELSE Str(Take(Strip(soup.headings[i].text), TextMax))

\* the <title> tier: only when soup.title.string is non-empty
TagTitle(soup) ==
    IF Truthy(soup.titleTag)
    THEN TitleFromTitleTag(Take(Strip(soup.titleTag.s), TextMax))
    ELSE None

\* 3), 3a), 3c): heading, og:title, <title>, URL slug
GenericTitle(soup, u) ==
    Fill(Fill(Fill(H1Title(soup), Cap(soup.ogTitle, TextMax)), TagTitle(soup)), SlugTitle(u))

\* og:site_name, 3b) the domain label ext.domain.title()[:300], 3b-2) the employer hint
GenericEmployer(soup, u, employer_hint) ==
    LET domain == TldExtract(Hostname(u)).domain
    IN  Fill(Fill(Fill(None, Cap(soup.ogSiteName, TextMax)),
                  IF domain # <<>> THEN Str(Take(Title(domain), TextMax)) ELSE None),
             Cap(employer_hint, TextMax))

\* 3) the heuristic fallback of parse_job_from_html
GenericTier(soup, u, employer_hint) ==
    Result(GenericTitle(soup, u), GenericEmployer(soup, u, employer_hint), None, None, u)


(* ---------------------------------------------------------------------- *)
(* parse_linkedin_from_html (scraping/sites/linkedin.py)                   *)
(* ---------------------------------------------------------------------- *)

\* _clean(text) of sites/linkedin.py: runs of whitespace become one space
LinkedinClean(v) ==
    LET s == Join(NonEmpty(Split(ReplaceChar(ReplaceChar(v.s, "\t", " "), "\n", " "), " ")), <<" ">>)
    IN  IF ~Truthy(v) \/ s = <<>> THEN None ELSE Str(Take(s, TextMax))

\* no employer value is taken for the platform's name
BadEmployerNever(val) == FALSE

\* _bad_employer(val)
BadEmployer(val) == Lower(Strip(val)) \in {<<"l","i","n","k","e","d","i","n">>, <<"j","o","b","s">>, <<"j","o","b">>, <<"h","i","r","i","n","g">>}

\* 1) the regexes on the text of one JSON-LD script, parsed as JSON or not: is there
\* "@type": "JobPosting", the first "title" and the first hiringOrganization "name"
\* with a string value of 2 to 200 characters
LinkedinScan(block) ==
    LET nodes == block.nodes
        hit(v) == IsStr(v) /\ Len(v.s) >= 2 /\ Len(v.s) <= 200
        t == FirstOf({i \in 1..Len(nodes) : hit(nodes[i].title)})
        e == FirstOf({i \in 1..Len(nodes) : nodes[i].org.dict /\ hit(nodes[i].org.name)})
    IN  [typed    |-> \E i \in 1..Len(nodes) :
                         ~nodes[i].typ.list /\ nodes[i].typ.names = {"JobPosting"},
         title    |-> IF t = 0 THEN None ELSE LinkedinClean(nodes[t].title),
         employer |-> IF e = 0 THEN None ELSE LinkedinClean(nodes[e].org.name)]

\* parse_linkedin_from_html(html, url): 1) JSON-LD scripts, 2) the first <h1> (the
\* documents carry none of the LinkedIn-specific selectors), 3) script blobs
ParseLinkedin(soup) ==
    LET scans == [i \in 1..Len(soup.ld) |-> LinkedinScan(soup.ld[i])]
        T     == {i \in 1..Len(scans) : scans[i].typed /\ Truthy(scans[i].title)}
        E     == {i \in 1..Len(scans) : scans[i].typed /\ Truthy(scans[i].employer)}
        h1    == FirstOf({i \in 1..Len(soup.headings) : soup.headings[i].tag = "h1"})
        blobs == [i \in 1..Len(scans) |-> scans[i].employer] \o UltiproEmployerSources(soup)
        B     == {i \in 1..Len(blobs) :
                    /\ Len(blobs[i].s) >= 2
                    /\ Truthy(LinkedinClean(blobs[i]))
                    /\ ~BadEmployer(LinkedinClean(blobs[i]).s)}
        employer == IF E # {} THEN scans[FirstOf(E)].employer
                    ELSE IF B # {} THEN LinkedinClean(blobs[FirstOf(B)])
                    ELSE None
    IN  [title    |-> IF T # {} THEN scans[FirstOf(T)].title
                      ELSE IF h1 # 0 THEN LinkedinClean(Str(soup.headings[h1].text))
                      ELSE None,
         employer |-> IF BadEmployer(employer.s) THEN None ELSE employer]
(* ---------------------------------------------------------------------- *)
(* Greenhouse API resolver (sites/greenhouse.py)                           *)
(* ---------------------------------------------------------------------- *)

\* the candidate tokens of a registrable-domain label: the label, and what follows
\* a leading "with"
TokensOf(domain) ==
    IF domain = <<>> THEN <<>>
    ELSE IF Len(domain) > 4 /\ SubSeq(domain, 1, 4) = <<"w","i","t","h">>
    THEN << domain, SubSeq(domain, 5, Len(domain)) >>
    ELSE << domain >>

\* _candidate_board_tokens(hostname)
CandidateBoardTokens(host) == TokensOf(TldExtract(host).domain)

\* _pretty_token(token)
PrettyToken(token) ==
    LET t == Strip(ReplaceChar(ReplaceChar(token, "-", " "), "_", " "))
    IN  IF token = <<>> \/ t = <<>> THEN None ELSE Str(Title(t))

\* 1) direct Greenhouse URL /{token}/jobs/{id}: is the path pattern present
HasPathToken(u) ==
    /\ IsSubstr(<<"g","r","e","e","n","h","o","u","s","e",".","i","o">>, Hostname(u))
    /\ Len(PathParts(u)) >= 3
    /\ PathParts(u)[2] = <<"j","o","b","s">>
    /\ AllIn(PathParts(u)[3], DigitChars)

\* job_id_qs: job_ids = qs.get("gh_jid") or qs.get("gh_src"), then
\* job_ids[0] if job_ids else None
JobIdQs(u) ==
    LET qs      == ParseQs(u.query)
        job_ids == IF QsGet(qs, <<"g","h","_","j","i","d">>) # <<>> THEN QsGet(qs, <<"g","h","_","j","i","d">>)
                   ELSE QsGet(qs, <<"g","h","_","s","r","c">>)
    IN  IF job_ids = <<>> THEN <<>> ELSE job_ids[1]

\* the dict parse_greenhouse_from_url builds from an API record
GreenhouseResult(data, token) ==
    [title    |-> Cap(data.title, TextMax),
     employer |-> Cap(Or(data.company_name, PrettyToken(token)), TextMax)]

\* the early return of parse_job_from_html on an API result
ApiReturns(gh) == Truthy(gh.title) \/ Truthy(gh.employer)

\* JSON records the boards API can answer with
ApiRecords ==
    { [title |-> Str(<<"D","a","t","a"," ","E","n","g","i","n","e","e","r">>), company_name |-> Str(<<"A","c","m","e"," ","I","n","c">>)],
      [title |-> Str(LongText), company_name |-> Str(LongText)],
      [title |-> None, company_name |-> None] }

\* what one API request can end in: an exception, a non-200 status, a body that is
\* not JSON, a JSON body without "title", or a record
ApiOutcomes ==
    { [kind |-> k, data |-> [title |-> None, company_name |-> None]] :
          k \in {"exc", "404", "malformed", "notitle"} }
        \cup { [kind |-> "ok", data |-> d] : d \in ApiRecords }

(* ---------------------------------------------------------------------- *)
(* The network                                                             *)
(* ---------------------------------------------------------------------- *)

\* Response.ok
Ok(status) == status < 400

\* raise_for_status() raises
IsHttpError(status) == status >= 400 /\ status < 600

\* an answer to a request: an exception (connection error, timeout) or a response
Exc == [exc |-> TRUE, status |-> 0, text |-> ""]

\* an error page's text is never read
Answers(texts) ==
    {Exc} \cup {r \in [exc : {FALSE}, status : {200, 403, 500}, text : texts \cup {""}] :
                  Ok(r.status) \/ r.text = ""}

\* settings.FETCH_PROXY_READER
ProxySettings == {<<>>, <<"h","t","t","p","s",":","/","/","r","e","a","d","e","r",".","e","x","a","m","p","l","e","/">>}

\* the hardcoded public reader
DefaultProxy == <<"h","t","t","p","s",":","/","/","r",".","j","i","n","a",".","a","i">>

\* one entry of the call trace
Call(req, via, answer) ==
    [req |-> req, via |-> via,
     out |-> IF answer.exc THEN "exc" ELSE "status", status |-> answer.status,
     text |-> answer.text]

\* an exception: its type, the status code it carries (0: none), and for a
\* RetryError the exception of the last attempt that it wraps
NoError == [type |-> "none", status |-> 0, cause |-> "none", cause_status |-> 0]

ConnectionError ==
    [type |-> "ConnectionError", status |-> 0, cause |-> "none", cause_status |-> 0]

HTTPError(status) ==
    [type |-> "HTTPError", status |-> status, cause |-> "none", cause_status |-> 0]

\* tenacity.RetryError
RetryError(e) ==
    [type |-> "RetryError", status |-> 0, cause |-> e.type, cause_status |-> e.status]

(* ---------------------------------------------------------------------- *)
(* State                                                                   *)
(* ---------------------------------------------------------------------- *)

VARIABLES
    url,            \* add: the URL argument
    proxy,          \* settings.FETCH_PROXY_READER
    title,          \* add: --title
    employer,       \* add: --employer
    pc,             \* where the command is
    attempt,        \* tenacity: the attempt number of fetch_url
    resp,           \* fetch_url: the direct response
    calls,          \* the network calls of the current attempt, and of the parse after it
    html,           \* add: the text fetch_url returned
    error,          \* the exception in flight
    employer_hint,  \* parse_job_from_html: employer_hint
    token_i,        \* parse_greenhouse_from_url: position in the token loop
    parsed,         \* add: parsed
    exit_code,      \* the exit code of the command (-1 while running)
    store,          \* the rows of the Applications sheet
    runs            \* the storage calls of two callers: the call, its argument, its df

vars ==
    << url, proxy, title, employer, pc, attempt, resp, calls, html, error,
       employer_hint, token_i, parsed, exit_code, store, runs >>

inputs == << url, proxy, title, employer >>

\* no storage call made yet by either caller
NoRuns == [p \in 1..2 |-> [op |-> "none", arg |-> <<>>, pc |-> "idle", df |-> <<>>]]

NoResp == [exc |-> FALSE, status |-> 0, text |-> ""]

NoParsed ==
    [title |-> None, employer |-> None, date_posted |-> None, location |-> None,
     source_site |-> <<>>]

\* --title / --employer values
Overrides == {None, Str(<<"M","a","n","u","a","l">>)}

\* the sheets add can find: a new one, and one that holds a row for UrlGeneric
Sheets ==
    { <<>>,
      << [id |-> 3, title |-> <<"O","l","d"," ","T","i","t","l","e">>, employer |-> <<"O","l","d"," ","E","m","p","l","o","y","e","r">>,
          status |-> "saved", date_applied |-> "2024-05-01", source_url |-> UrlGeneric] >> }

\* the command lines in use: every URL without overrides, one URL with every
\* combination of overrides
Init ==
    /\ url \in Urls
    /\ title \in Overrides
    /\ employer \in Overrides
    /\ url = UrlGeneric \/ (title = None /\ employer = None)
    /\ store \in Sheets
    /\ (url # UrlGeneric) => store = <<>>
    /\ proxy \in ProxySettings
    /\ pc = "add"
    /\ attempt = 0
    /\ resp = NoResp
    /\ calls = <<>>
    /\ html = ""
    /\ error = NoError
    /\ employer_hint = None
    /\ token_i = 0
    /\ parsed = NoParsed
    /\ exit_code = -1
    /\ runs = NoRuns

(* ---------------------------------------------------------------------- *)
(* fetch_url (scraping/fetch.py)                                           *)
(* ---------------------------------------------------------------------- *)

\* "ultipro.com" in host, host = urlparse(url).netloc.lower()
HostIsUltipro(u) == IsSubstr(<<"u","l","t","i","p","r","o",".","c","o","m">>, Lower(u.netloc))

\* _should_reader_fallback(body): the body shows a JS shell, or lacks the opportunity
\* title hooks
ShouldReaderFallback(u, body) ==
    HostIsUltipro(u) /\ (Soup(body).shellMarker \/ ~Soup(body).titleHook)

\* proxy_base of the 403 path: the configured reader only
ProxyBase403(setting) == Strip(setting)

\* proxy_base of the reader re-fetch and of the forced re-fetch: configured, else the default
ProxyBaseOrDefault(setting) == IF Strip(setting) # <<>> THEN Strip(setting) ELSE DefaultProxy

\* the host part of proxy_url = proxy_base.rstrip("/") + "/" + url
ProxyVia(base) == RStripChars(base, {"/"})

\* the session step with the configured proxy tried before the session response is used
AfterSessionProxyFirst(status, setting) ==
    IF ProxyBase403(setting) # <<>> THEN "proxy"
    ELSE IF Ok(status) THEN "return"
    ELSE "raise_for_status"

\* what follows the session request, given its response
AfterSession(status, setting) ==
    IF Ok(status) THEN "return"
    ELSE IF ProxyBase403(setting) # <<>> THEN "proxy"
    ELSE "raise_for_status"

\* what follows a direct response that is not a 403
AfterDirect(u, status, body) ==
    IF IsHttpError(status) THEN "raise_for_status"
    ELSE IF ShouldReaderFallback(u, body) THEN "reader"
    ELSE IF HostIsUltipro(u) THEN "render"
    ELSE "return"

\* the reader re-fetch is used when it answered ok with a non-empty text
ReaderUsable(answer) == ~answer.exc /\ Ok(answer.status) /\ answer.text # ""

\* the reader step without the test for a non-empty text
AfterReaderAnyText(u, answer) ==
    IF ~answer.exc /\ Ok(answer.status) THEN "return_reader"
    ELSE IF HostIsUltipro(u) THEN "render"
    ELSE "return_body"

\* what follows the reader re-fetch of the post-success heuristic
AfterReader(u, answer) ==
    IF ReaderUsable(answer) THEN "return_reader"
    ELSE IF HostIsUltipro(u) THEN "render"
    ELSE "return_body"

\* fetch_url raises e: tenacity decides
Raise(e) ==
    /\ error' = e
    /\ pc' = "raised"
    /\ resp' = NoResp
    /\ UNCHANGED html

\* fetch_url returns text: add goes on to parse_job_from_html
Return(text) ==
    /\ html' = text
    /\ pc' = "parse"
    /\ resp' = NoResp
    /\ UNCHANGED error

\* fetch_url goes on to its next request
Goto(next) ==
    /\ pc' = next
    /\ UNCHANGED << html, error, resp >>

\* add, fetching: html = fetch_url(url), first attempt
AddFetch ==
    /\ pc = "add"
    /\ pc' = "direct"
    /\ attempt' = 1
    /\ UNCHANGED << inputs, runs, store, resp, calls, html, error, employer_hint, token_i, parsed,
                    exit_code >>

\* the step after a direct response that is not a 403
DirectNext(a, next) ==
    CASE next = "raise_for_status" -> Raise(HTTPError(a.status))
      [] next = "return"           -> Return(a.text)
      [] OTHER                     -> pc' = next /\ resp' = a /\ UNCHANGED << html, error >>

\* resp = requests.get(url, ...)
DirectGet ==
    /\ pc = "direct"
    /\ \E a \in Answers(PageTexts) :
          /\ calls' = Append(calls, Call("direct", <<>>, a))
          /\ IF a.exc THEN Raise(ConnectionError)
             ELSE IF a.status = 403
             THEN pc' = "prime" /\ resp' = a /\ UNCHANGED << html, error >>
             ELSE DirectNext(a, AfterDirect(url, a.status, a.text))
    /\ UNCHANGED << inputs, runs, store, attempt, employer_hint, token_i, parsed, exit_code >>

\* s.get(base, ...): prime cookies from the root; the outcome is ignored
PrimeGet ==
    /\ pc = "prime"
    /\ \E a \in Answers({}) :
          calls' = Append(calls, Call("prime", <<>>, a))
    /\ pc' = "session"
    /\ UNCHANGED << inputs, runs, store, attempt, resp, html, error, employer_hint, token_i, parsed,
                    exit_code >>

\* the step after the session response
SessionNext(a, next) ==
    CASE next = "return" -> Return(a.text)
      [] next = "proxy"  -> Goto("proxy")
      [] OTHER           -> Raise(HTTPError(resp.status))   \* resp.raise_for_status()

\* resp2 = s.get(url, headers=headers2, ...), and what follows it
SessionGet ==
    /\ pc = "session"
    /\ \E a \in Answers(PageTexts) :
          /\ calls' = Append(calls, Call("session", <<>>, a))
          /\ IF a.exc THEN Raise(ConnectionError)
             ELSE SessionNext(a, AfterSession(a.status, proxy))
    /\ UNCHANGED << inputs, runs, store, attempt, employer_hint, token_i, parsed, exit_code >>

\* resp3 = requests.get(proxy_url, ...); resp3.raise_for_status(); return resp3.text
ProxyGet ==
    /\ pc = "proxy"
    /\ \E a \in Answers(ReaderTexts) :
          /\ calls' = Append(calls, Call("proxy", ProxyVia(ProxyBase403(proxy)), a))
          /\ IF a.exc THEN Raise(ConnectionError)
             ELSE IF IsHttpError(a.status) THEN Raise(HTTPError(a.status))
             ELSE Return(a.text)
    /\ UNCHANGED << inputs, runs, store, attempt, employer_hint, token_i, parsed, exit_code >>

\* the step after the reader re-fetch
ReaderNext(a, next) ==
    CASE next = "return_reader" -> Return(a.text)
      [] next = "render"        -> Goto("render")
      [] OTHER                  -> Return(resp.text)

\* the reader re-fetch after a direct success; every failure keeps the body
ReaderGet ==
    /\ pc = "reader"
    /\ \E a \in Answers(ReaderTexts) :
          /\ calls' = Append(calls, Call("reader", ProxyVia(ProxyBaseOrDefault(proxy)), a))
          /\ ReaderNext(a, AfterReader(url, a))
    /\ UNCHANGED << inputs, runs, store, attempt, employer_hint, token_i, parsed, exit_code >>

\* rendered = _render_with_playwright(url, ...); return rendered or body.
\* _render_with_playwright ends in None (the import fails, or rendering raises) or in
\* the text of page.content()
Render ==
    /\ pc = "render"
    /\ \E a \in {Exc} \cup { [exc |-> FALSE, status |-> 200, text |-> t] : t \in ReaderTexts } :
          /\ calls' = Append(calls, Call("render", <<>>, a))
          /\ IF ~a.exc /\ a.text # "" THEN Return(a.text) ELSE Return(resp.text)
    /\ UNCHANGED << inputs, runs, store, attempt, employer_hint, token_i, parsed, exit_code >>

\* @retry(stop=stop_after_attempt(3)): any exception is retried until the third attempt,
\* then RetryError is raised to the caller
Retry ==
    /\ pc = "raised"
    /\ IF attempt < MaxAttempts
       THEN /\ attempt' = attempt + 1
            /\ pc' = "direct"
            /\ calls' = <<>>
            /\ error' = NoError
       ELSE /\ error' = RetryError(error)
            /\ pc' = "except"
            /\ UNCHANGED << attempt, calls >>
    /\ UNCHANGED << inputs, runs, store, resp, html, employer_hint, token_i, parsed, exit_code >>

(* ---------------------------------------------------------------------- *)
(* parse_job_from_html (scraping/parse_common.py)                          *)
(* ---------------------------------------------------------------------- *)

\* ext.domain == "ultipro"
IsUltiproDomain(u) == TldExtract(Hostname(u)).domain = <<"u","l","t","i","p","r","o">>

\* the employer hint an UltiPro extraction leaves
HintOf(up) == IF Truthy(up.employer) THEN up.employer ELSE None

\* tier 2b making the forced re-fetch whether or not the extractor finds a title
UltiproTierAlwaysRefetch(up, u) == [done |-> FALSE, result |-> NoParsed, hint |-> HintOf(up)]

\* tier 2b on the fetched html: a result when the extractor finds a title, else the
\* forced re-fetch is next with the employer hint found so far
UltiproTier(up, u) ==
    IF Truthy(up.title)
    THEN [done |-> TRUE, result |-> Result(up.title, up.employer, None, None, u), hint |-> None]
    ELSE [done |-> FALSE, result |-> NoParsed, hint |-> HintOf(up)]

\* tiers 2b and 3 on the fetched html, reached when no JSON-LD node is a JobPosting
AfterLd(soup, u) ==
    IF IsUltiproDomain(u) THEN UltiproTier(ParseUltipro(soup), u)
    ELSE [done |-> TRUE, result |-> GenericTier(soup, u, None), hint |-> None]

\* the structured-data tier returning the last JobPosting node instead of the first
LdTierLastNode(jps, soup, u) ==
    IF jps # <<>>
    THEN [done |-> TRUE, result |-> FromJobPosting(jps[Len(jps)], u), hint |-> None]
    ELSE AfterLd(soup, u)

\* tier 2: the first JobPosting node is returned
LdTier(jps, soup, u) ==
    IF jps # <<>>
    THEN [done |-> TRUE, result |-> FromJobPosting(jps[1], u), hint |-> None]
    ELSE AfterLd(soup, u)

\* tiers 2 and 2b on the fetched html, up to the forced re-fetch
HtmlTiers(text, u) == LdTier(JobPostings(Soup(text)), Soup(text), u)

\* the employer hint after the re-fetched document was read
HintAfter(up2, hint) == IF Truthy(up2.employer) /\ ~Truthy(hint) THEN up2.employer ELSE hint

\* the result from the re-fetched document
FromForced(up2, text, u, hint) ==
    IF Truthy(up2.title)
    THEN Result(up2.title, Or(up2.employer, hint), None, None, u)
    ELSE GenericTier(Soup(text), u, HintAfter(up2, hint))

\* the result once the forced re-fetch has been answered
AfterForced(text, u, hint, answer) ==
    IF ~ReaderUsable(answer) THEN GenericTier(Soup(text), u, hint)
    ELSE FromForced(ParseUltipro(Soup(answer.text)), text, u, hint)

\* parse_job_from_html leaves the HTML tiers with outcome o
LeaveHtmlTiers(o) ==
    IF o.done
    THEN pc' = "finish" /\ parsed' = o.result /\ UNCHANGED employer_hint
    ELSE pc' = "forced" /\ employer_hint' = o.hint /\ UNCHANGED parsed

\* parse_job_from_html goes on with the HTML tiers
EnterHtmlTiers == pc' = "html" /\ UNCHANGED << parsed, employer_hint >>

\* the token loop of parse_greenhouse_from_url runs when there is a job id in the query
HasQsTokens(u) == JobIdQs(u) # <<>> /\ CandidateBoardTokens(Hostname(u)) # <<>>

\* the answer of the boards API as a call-trace entry
ApiCall(token, o) ==
    Call("api", token,
         [exc |-> o.kind = "exc", status |-> IF o.kind = "404" THEN 404 ELSE 200,
          text |-> o.kind])

\* parse_job_from_html returns the API result
ReturnApi(gh) ==
    /\ parsed' = Result(gh.title, gh.employer, None, None, url)
    /\ pc' = "finish"
    /\ UNCHANGED employer_hint

\* urlparse(url) returns: urlsplit raises ValueError("Invalid IPv6 URL") when the
\* netloc holds one of "[" and "]" without the other
UrlSplits(u) == ("[" \in Range(u.netloc)) <=> ("]" \in Range(u.netloc))

\* parsed = parse_job_from_html(html, url), up to its first network call; the
\* urlparse(url) of parse_greenhouse_from_url is not inside any try
ParseStart ==
    /\ pc = "parse"
    /\ IF ~UrlSplits(url)
       THEN /\ error' = [NoError EXCEPT !.type = "ValueError"]
            /\ pc' = "except"
            /\ UNCHANGED << parsed, employer_hint, token_i >>
       ELSE /\ UNCHANGED error
            /\ IF HasPathToken(url)
               THEN pc' = "api_path" /\ UNCHANGED << parsed, employer_hint, token_i >>
               ELSE IF HasQsTokens(url)
               THEN pc' = "api_qs" /\ token_i' = 1 /\ UNCHANGED << parsed, employer_hint >>
               ELSE EnterHtmlTiers /\ UNCHANGED token_i
    /\ UNCHANGED << inputs, runs, store, attempt, resp, calls, html, exit_code >>

\* parse_job_from_html after the path request was answered
AfterApiPath(o, gh) ==
    IF o.kind = "ok" /\ ApiReturns(gh)
    THEN ReturnApi(gh) /\ UNCHANGED token_i
    ELSE IF o.kind # "ok" /\ HasQsTokens(url)
    THEN pc' = "api_qs" /\ token_i' = 1 /\ UNCHANGED << parsed, employer_hint >>
    ELSE EnterHtmlTiers /\ UNCHANGED token_i

\* the path request with its token
ApiPathStep(o, token) ==
    /\ calls' = Append(calls, ApiCall(token, o))
    /\ AfterApiPath(o, GreenhouseResult(o.data, token))

\* _fetch_greenhouse_job(job_id_path, token_path)
ApiPathGet ==
    /\ pc = "api_path"
    /\ \E o \in ApiOutcomes : ApiPathStep(o, PathParts(url)[1])
    /\ UNCHANGED << inputs, runs, store, attempt, resp, html, error, exit_code >>

\* the token loop giving up at the first invalid answer
AfterApiQsFirstOnly(o, gh, last) ==
    IF o.kind = "ok" /\ ApiReturns(gh)
    THEN ReturnApi(gh) /\ UNCHANGED token_i
    ELSE EnterHtmlTiers /\ UNCHANGED token_i

\* parse_job_from_html after one request of the token loop was answered
AfterApiQs(o, gh, last) ==
    IF o.kind = "ok" /\ ApiReturns(gh)
    THEN ReturnApi(gh) /\ UNCHANGED token_i
    ELSE IF o.kind # "ok" /\ ~last
    THEN token_i' = token_i + 1 /\ UNCHANGED << pc, parsed, employer_hint >>
    ELSE EnterHtmlTiers /\ UNCHANGED token_i

\* one request of the token loop
ApiQsStep(o, tokens) ==
    /\ calls' = Append(calls, ApiCall(tokens[token_i], o))
    /\ AfterApiQs(o, GreenhouseResult(o.data, tokens[token_i]), token_i >= Len(tokens))

\* _fetch_greenhouse_job(job_id_qs, token) for the next candidate token
ApiQsGet ==
    /\ pc = "api_qs"
    /\ \E o \in ApiOutcomes : ApiQsStep(o, CandidateBoardTokens(Hostname(url)))
    /\ UNCHANGED << inputs, runs, store, attempt, resp, html, error, exit_code >>

\* tiers 2, 2b and 3 of parse_job_from_html on the fetched html
ParseHtml ==
    /\ pc = "html"
    /\ LeaveHtmlTiers(HtmlTiers(html, url))
    /\ UNCHANGED << inputs, runs, store, attempt, resp, calls, html, error, token_i, exit_code >>

\* the forced reader re-fetch for an UltiPro URL without a title, then the generic tier
ForcedGet ==
    /\ pc = "forced"
    /\ \E a \in Answers(ReaderTexts) :
          /\ calls' = Append(calls, Call("forced", ProxyVia(ProxyBaseOrDefault(proxy)), a))
          /\ parsed' = AfterForced(html, url, employer_hint, a)
    /\ pc' = "finish"
    /\ UNCHANGED << inputs, runs, store, attempt, resp, html, error, employer_hint, token_i, exit_code >>

(* ---------------------------------------------------------------------- *)
(* add (cli/main.py)                                                       *)
(* ---------------------------------------------------------------------- *)

\* {"title": title, "employer": employer}
FromOverrides == [NoParsed EXCEPT !.title = title, !.employer = employer]

\* add --no-fetch: parsed comes from the overrides
AddNoFetch ==
    /\ pc = "add"
    /\ parsed' = FromOverrides
    /\ pc' = "finish"
    /\ UNCHANGED << inputs, runs, store, attempt, resp, calls, html, error, employer_hint, token_i,
                    exit_code >>

\* except Exception giving up with exit code 1 whether or not an override was given
AddExceptAlwaysExit ==
    /\ pc = "except"
    /\ exit_code' = 1 /\ pc' = "exit" /\ UNCHANGED parsed
    /\ UNCHANGED << inputs, runs, store, attempt, resp, calls, html, error, employer_hint, token_i >>

\* except Exception: go on with the overrides, or give up with exit code 1
AddExcept ==
    /\ pc = "except"
    /\ IF Truthy(title) \/ Truthy(employer)
       THEN parsed' = FromOverrides /\ pc' = "finish" /\ UNCHANGED exit_code
       ELSE exit_code' = 1 /\ pc' = "exit" /\ UNCHANGED parsed
    /\ UNCHANGED << inputs, runs, store, attempt, resp, calls, html, error, employer_hint, token_i >>

(* create_or_update (storage/excel_storage.py) and the end of add *)

\* the next id taken from the number of rows instead of the largest id
NextIdByCount(df) == Len(df) + 1

\* _next_id(df)
NextId(df) ==
    IF df = <<>> THEN 1
    ELSE 1 + CHOOSE m \in {df[i].id : i \in 1..Len(df)} : \A i \in 1..Len(df) : df[i].id <= m

\* create_or_update adding a row whether or not the source_url is stored
CreateOrUpdateAppend(df, data) == Append(df, [data EXCEPT !.id = NextId(df)])

\* create_or_update(path, data): the sheet after the call. The first row with the
\* source_url of data is updated in place, else a row with the next id is appended.
CreateOrUpdate(df, data) ==
    LET idx == FirstOf({i \in 1..Len(df) : df[i].source_url = data.source_url})
    IN  IF idx # 0
        THEN [df EXCEPT ![idx] = [data EXCEPT !.id = df[idx].id]]
        ELSE Append(df, [data EXCEPT !.id = NextId(df)])

\* parse_date(value): today for no value, None for text dateparser cannot read
ParseDate(value) == IF value = "" THEN "today" ELSE "unreadable"

\* parsed.get(key) or ""
OrBlank(v) == IF Truthy(v) THEN v ELSE Str(<<>>)

\* JobApplicationCreate(...) and xl_create_or_update(...): pydantic rejects a title or
\* employer that is not a str, and the uncaught ValidationError ends the command with
\* exit code 1
Save(p, date) ==
    IF ~IsStr(OrBlank(p.title)) \/ ~IsStr(OrBlank(p.employer))
    THEN exit_code' = 1 /\ pc' = "exit" /\ UNCHANGED store
    ELSE /\ store' = CreateOrUpdate(store,
                        [id |-> 0, title |-> OrBlank(p.title).s,
                         employer |-> OrBlank(p.employer).s, status |-> "applied",
                         date_applied |-> date, source_url |-> url])
         /\ exit_code' = 0
         /\ pc' = "saved"

\* the end of add: the overrides are applied to parsed, --date-applied is read (exit
\* code 2 when it cannot be), the record is saved
AddFinish ==
    /\ pc = "finish"
    /\ parsed' = [parsed EXCEPT
                     !.title = IF Truthy(title) THEN title ELSE @,
                     !.employer = IF Truthy(employer) THEN employer ELSE @]
    /\ \E value \in {"", "someday"} :       \* --date-applied absent, or not a date
          IF ParseDate(value) = "unreadable"
          THEN exit_code' = 2 /\ pc' = "exit" /\ UNCHANGED store
          ELSE Save(parsed', ParseDate(value))
    /\ UNCHANGED << inputs, runs, attempt, resp, calls, html, error, employer_hint, token_i >>

Next ==
    \/ AddFetch
    \/ AddNoFetch
    \/ DirectGet
    \/ PrimeGet
    \/ SessionGet
    \/ ProxyGet
    \/ ReaderGet
    \/ Render
    \/ Retry
    \/ AddExcept
    \/ ParseStart
    \/ ApiPathGet
    \/ ApiQsGet
    \/ ParseHtml
    \/ ForcedGet
    \/ AddFinish

Spec == Init /\ [][Next]_vars

(* ---------------------------------------------------------------------- *)
(* parse_job_from_html called on its own, as a function of (html, url)     *)
(* ---------------------------------------------------------------------- *)

\* the arguments of the call: any content, and any URL string, among them
\* https://[boards.greenhouse.io/acme/jobs/12345 which urlparse rejects
InitParse ==
    /\ url \in Urls \cup {MkUrl(<<"h","t","t","p","s">>, <<"[","b","o","a","r","d","s",".","g","r","e","e","n","h","o","u","s","e",".","i","o">>, <<"/","a","c","m","e","/","j","o","b","s","/","1","2","3","4","5">>, <<>>)}
    /\ html \in PageTexts \cup ReaderTexts
    /\ proxy \in ProxySettings
    /\ title = None
    /\ employer = None
    /\ pc = "parse"
    /\ attempt = 0
    /\ resp = NoResp
    /\ calls = <<>>
    /\ error = NoError
    /\ employer_hint = None
    /\ token_i = 0
    /\ parsed = NoParsed
    /\ exit_code = -1
    /\ store = <<>>
    /\ runs = NoRuns

NextParse ==
    \/ ParseStart
    \/ ApiPathGet
    \/ ApiQsGet
    \/ ParseHtml
    \/ ForcedGet

SpecParse == InitParse /\ [][NextParse]_vars


(* ---------------------------------------------------------------------- *)
(* The record store used on its own: create_or_update, update_status and   *)
(* remove_by_id called one after another on a store that starts empty      *)
(* ---------------------------------------------------------------------- *)

\* ids are assigned up to here
MaxId == 3

\* the state outside the store, as it is when no add command is under way
NoCommand ==
    /\ url = UrlGeneric
    /\ proxy = <<>>
    /\ title = None
    /\ employer = None
    /\ pc = "store"
    /\ attempt = 0
    /\ resp = NoResp
    /\ calls = <<>>
    /\ html = ""
    /\ error = NoError
    /\ employer_hint = None
    /\ token_i = 0
    /\ parsed = NoParsed
    /\ exit_code = -1

\* the JobApplicationCreate values in use: three URLs, two titles, the default status
StoreData ==
    { [id |-> 0, title |-> t, employer |-> <<"A","c","m","e">>, status |-> s,
       date_applied |-> "today", source_url |-> u] :
          t \in {<<"E","n","g","i","n","e","e","r">>, <<"S","t","a","f","f"," ","E","n","g","i","n","e","e","r">>},
          s \in {"applied"},
          u \in {u \in Urls : TldExtract(Hostname(u)).domain \in
                                  {<<"e","x","a","m","p","l","e">>, <<"g","r","e","e","n","h","o","u","s","e">>, <<"l","i","n","k","e","d","i","n">>}} }

\* what a call on the store leaves alone
command ==
    << url, proxy, title, employer, pc, attempt, resp, calls, html, error, employer_hint,
       token_i, parsed, exit_code >>

InitStore ==
    /\ store = <<>>
    /\ runs = NoRuns
    /\ NoCommand

\* create_or_update(path, data), the whole call
CreateOrUpdateCall ==
    \E data \in StoreData :
        /\ NextId(store) <= MaxId \/ \E i \in 1..Len(store) : store[i].source_url = data.source_url
        /\ store' = CreateOrUpdate(store, data)
        /\ runs' = [runs EXCEPT ![1] =
                       [op |-> "create_or_update", arg |-> data, pc |-> "done", df |-> store']]
        /\ UNCHANGED command

\* update_status(path, selector, new_status), the whole call: a selector of digits picks
\* the first row with that id, any other selector the first row with that source_url;
\* the file is written only when a row is found
UpdateStatus ==
    \E selector \in [digits : {TRUE}, id : 1..MaxId, url : {<<>>}] \cup
                    [digits : {FALSE}, id : {0}, url : {d.source_url : d \in StoreData}],
       new_status \in {"rejected"} :
        LET idx == FirstOf({i \in 1..Len(store) :
                               IF selector.digits THEN store[i].id = selector.id
                               ELSE store[i].source_url = selector.url})
        IN  /\ store' = IF idx = 0 THEN store
                        ELSE [store EXCEPT ![idx].status = new_status]
            /\ runs' = [runs EXCEPT ![1] =
                           [op |-> "update_status", arg |-> selector, pc |-> "done",
                            df |-> store']]
            /\ UNCHANGED command

\* remove_by_id(path, item_id), the whole call: the first row with that id is dropped
RemoveById ==
    \E item_id \in 1..MaxId :
        LET idx == FirstOf({i \in 1..Len(store) : store[i].id = item_id})
        IN  /\ store' = IF idx = 0 THEN store
                        ELSE [i \in 1..(Len(store) - 1) |->
                                 IF i < idx THEN store[i] ELSE store[i + 1]]
            /\ runs' = [runs EXCEPT ![1] =
                           [op |-> "remove_by_id", arg |-> item_id, pc |-> "done",
                            df |-> store']]
            /\ UNCHANGED command

NextStore ==
    \/ CreateOrUpdateCall
    \/ UpdateStatus
    \/ RemoveById

SpecStore == InitStore /\ [][NextStore]_vars

(* ---------------------------------------------------------------------- *)
(* Two add commands for different URLs at the same time on one store file: *)
(* each create_or_update reads the file, changes its own df, and writes it *)
(* ---------------------------------------------------------------------- *)

\* the file holds nothing or one row, and each caller has its data, for different URLs
InitRace ==
    /\ store \in Sheets
    /\ runs \in [1..2 -> [op : {"create_or_update"}, arg : StoreData, pc : {"start"},
                          df : {<<>>}]]
    /\ runs[1].arg.source_url # runs[2].arg.source_url
    /\ NoCommand

\* ensure_file(path); df = _read_df(path)
AddRead(p) ==
    /\ runs[p].pc = "start"
    /\ runs' = [runs EXCEPT ![p].df = store, ![p].pc = "read"]
    /\ UNCHANGED << store, command >>

\* the row with data.source_url is changed in df, or a row with _next_id(df) is added
AddModify(p) ==
    /\ runs[p].pc = "read"
    /\ runs' = [runs EXCEPT ![p].df = CreateOrUpdate(runs[p].df, runs[p].arg),
                            ![p].pc = "modified"]
    /\ UNCHANGED << store, command >>

\* _write_df(df, path): the file is replaced by the caller's df
AddWrite(p) ==
    /\ runs[p].pc = "modified"
    /\ store' = runs[p].df
    /\ runs' = [runs EXCEPT ![p].pc = "done"]
    /\ UNCHANGED command

NextRace ==
    \E p \in 1..2 :
        \/ AddRead(p)
        \/ AddModify(p)
        \/ AddWrite(p)

SpecRace == InitRace /\ [][NextRace]_vars

(* ---------------------------------------------------------------------- *)
(* Properties                                                              *)
(* ---------------------------------------------------------------------- *)

\* the requests that retrieve the job page
HtmlRequests == {"direct", "prime", "session", "proxy", "reader", "render"}

\* some request of kind req is in the call trace
HasCall(req) == \E i \in 1..Len(calls) : calls[i].req = req

\* add has given up because the fetch failed
GaveUp == pc = "exit" /\ error # NoError

\* the URL is one the API resolver recognises
Recognised(u) == HasPathToken(u) \/ HasQsTokens(u)

\* parse_job_from_html has just returned the record of the boards API
ApiResultReturned ==
    /\ pc = "finish"
    /\ calls # <<>>
    /\ calls[Len(calls)].req = "api"
    /\ calls[Len(calls)].text = "ok"
    /\ Truthy(parsed.title)

\* C1: for a URL the API resolver recognises, the API record is returned without any
\* request for the job page, and a failing page fetch cannot keep the API from being
\* asked: the command never gives up on such a URL without an API request.
C1_ApiWithoutHtmlFetch ==
    /\ ApiResultReturned => \A i \in 1..Len(calls) : calls[i].req \notin HtmlRequests
    /\ (Recognised(url) /\ GaveUp) => HasCall("api")

\* the first JobPosting node of the fetched html has a non-empty string title
FirstPostingTitled(text) ==
    /\ JobPostings(Soup(text)) # <<>>
    /\ IsStr(JobPostings(Soup(text))[1].title)
    /\ Truthy(JobPostings(Soup(text))[1].title)

\* the titles a result must carry if every titled JobPosting node is to decide it
PostingTitles(text) ==
    { Cap(JobPostings(Soup(text))[i].title, TextMax) :
        i \in { j \in 1..Len(JobPostings(Soup(text))) :
                  /\ IsStr(JobPostings(Soup(text))[j].title)
                  /\ Truthy(JobPostings(Soup(text))[j].title) } }

\* C2 (as stated): whenever the API yields nothing and the content holds a JobPosting
\* node with non-empty title T, the result's title is T cut to 300 characters and no
\* lower tier, the forced re-fetch included, is consulted.
C2_AnyPostingTitleWins ==
    [][ pc = "html" =>
          \A t \in PostingTitles(html) : pc' = "finish" /\ parsed'.title = t ]_vars

\* C2 (amended): whenever the API yields nothing and the first JobPosting node of the
\* content in document order has a non-empty title T, the result's title is T cut to
\* 300 characters, whatever the platform extractor or the generic heuristics find, and
\* the forced re-fetch is not made.
C2_FirstPostingTitleWins ==
    [][ (pc = "html" /\ FirstPostingTitled(html)) =>
          /\ pc' = "finish"
          /\ parsed'.title = Cap(JobPostings(Soup(html))[1].title, TextMax)
          /\ calls' = calls ]_vars

\* C2 witness: an UltiPro URL whose page carries two JobPosting nodes was parsed, and
\* the first node's title is the result although the platform extractor finds another
C2_Witness ==
    /\ pc = "finish"
    /\ IsUltiproDomain(url)
    /\ html = "ld_two"
    /\ ~HasCall("forced")
    /\ parsed.title = Str(<<"N","u","r","s","e">>)
    /\ ParseUltipro(Soup(html)).title # parsed.title
    /\ GenericTier(Soup(html), url, None).title # parsed.title

\* C3: whenever the structured-data or the platform tier yields a title with an empty
\* employer and the generic tier would yield employer C for the same content and URL,
\* the result has that title and employer C.
C3_MergeFillsEmployer ==
    [][ (/\ pc = "html"
         /\ HtmlTiers(html, url).done
         /\ Truthy(HtmlTiers(html, url).result.title)
         /\ ~Truthy(HtmlTiers(html, url).result.employer)
         /\ Truthy(GenericTier(Soup(html), url, None).employer)) =>
          /\ parsed'.title = HtmlTiers(html, url).result.title
          /\ parsed'.employer = GenericTier(Soup(html), url, None).employer ]_vars

\* the attempt's requests began: direct 403, then the priming request, then request i
\* is the session request, answered with a success status
SessionSucceeded(i) ==
    /\ i = 3
    /\ Len(calls) >= 3
    /\ calls[1].req = "direct" /\ calls[1].out = "status" /\ calls[1].status = 403
    /\ calls[2].req = "prime"
    /\ calls[3].req = "session" /\ calls[3].out = "status" /\ Ok(calls[3].status)

\* C4: when the direct request is answered 403 and the session request after the priming
\* request is answered with a success status, fetch_url returns the session response's
\* text and makes no proxy-reader request, with or without a configured proxy base.
C4_SessionSuccessReturned ==
    \A i \in 1..Len(calls) :
        (calls[i].req = "session" /\ calls[i].out = "status" /\ Ok(calls[i].status)) =>
            /\ SessionSucceeded(i)
            /\ pc \notin {"direct", "prime", "session", "proxy", "reader", "render",
                          "raised", "except"}
            /\ ~GaveUp
            /\ html = calls[i].text
            /\ ~HasCall("proxy") /\ ~HasCall("reader") /\ ~HasCall("render")

\* C4 witness: with a proxy base configured, fetch_url has returned the text of the
\* successful session request that followed a direct 403
C4_Witness ==
    /\ pc = "parse"
    /\ proxy # <<>>
    /\ SessionSucceeded(3)
    /\ Len(calls) = 3
    /\ html = calls[3].text
    /\ html # ""

\* C5: a retry re-issues only the call that failed: when a request fails with a
\* connection error and fetch_url is retried from the direct request, the failed call
\* was the direct request; completed calls of the chain are not issued again.
C5_RetryOnlyFailedCall ==
    [][ (pc = "raised" /\ error.type = "ConnectionError" /\ pc' = "direct") =>
          calls[Len(calls)].req = "direct" ]_vars

\* C6: a non-success HTTP status that exhausts the strategies is not retried: once
\* fetch_url raises for a status, no further request is issued.
C6_NoRetryOnHttpStatus ==
    [][ (pc = "raised" /\ error.type = "HTTPError") => pc' # "direct" ]_vars

\* the attempt ended: direct 403, priming, session answered with a non-success status,
\* and no proxy base configured
SessionDenied ==
    /\ proxy = <<>>
    /\ Len(calls) = 3
    /\ calls[1].req = "direct" /\ calls[1].out = "status" /\ calls[1].status = 403
    /\ calls[3].req = "session" /\ calls[3].out = "status" /\ ~Ok(calls[3].status)

\* C7: when the direct request is answered 403, the session request with a non-success
\* status S and no proxy base is configured, fetch_url fails with an error carrying S,
\* and the caller receives that status-carrying error itself.
C7_ErrorCarriesSessionStatus ==
    /\ (pc = "raised" /\ SessionDenied) =>
          (error.type = "HTTPError" /\ error.status = calls[3].status)
    /\ (pc = "except" /\ SessionDenied) =>
          (error.type = "HTTPError" /\ error.status = calls[3].status)

\* the attempt began with a direct request answered with a success status
DirectSucceeded ==
    calls # <<>> /\ calls[1].req = "direct" /\ calls[1].out = "status" /\ Ok(calls[1].status)

\* request i of the trace answered with a success status and a non-empty text
Usable(i) == calls[i].out = "status" /\ Ok(calls[i].status) /\ calls[i].text # ""

\* fetch_url has returned
Fetched ==
    \/ pc \in {"parse", "api_path", "api_qs", "html", "forced", "finish", "saved"}
    \/ pc = "exit" /\ error = NoError

\* the text fetch_url owes after a successful direct request: the reader's when usable,
\* else the rendered page's when there is one, else the direct response's
BestContent ==
    IF \E i \in 1..Len(calls) : calls[i].req = "reader" /\ Usable(i)
    THEN calls[CHOOSE i \in 1..Len(calls) : calls[i].req = "reader"].text
    ELSE IF \E i \in 1..Len(calls) : calls[i].req = "render" /\ Usable(i)
    THEN calls[CHOOSE i \in 1..Len(calls) : calls[i].req = "render"].text
    ELSE calls[1].text

\* C8: after a direct request answered with a success status nothing fails the fetch:
\* fetch_url neither raises nor is retried, it returns the reader's text only when the
\* reader answered with success and a non-empty text, renders only when no reader text
\* was usable, and returns the direct response's text when neither step gave content.
C8_BestEffortNeverFails ==
    DirectSucceeded =>
        /\ pc \notin {"raised", "except"}
        /\ ~GaveUp
        /\ Fetched => html = BestContent
        /\ HasCall("render") =>
              ~\E i \in 1..Len(calls) : calls[i].req = "reader" /\ Usable(i)
        /\ ~HasCall("prime") /\ ~HasCall("session") /\ ~HasCall("proxy")

\* C8 witness: for an UltiPro URL whose direct response is a JS shell, the reader request
\* raised and rendering gave nothing, and fetch_url returned the direct response's text
C8_Witness ==
    /\ pc = "parse"
    /\ DirectSucceeded
    /\ Len(calls) = 3
    /\ calls[2].req = "reader" /\ calls[2].out = "exc"
    /\ calls[3].req = "render" /\ calls[3].out = "exc"
    /\ html = calls[1].text
    /\ html = "ulti_shell"

\* C9: without a configured proxy base no proxy request follows a 403 that survives the
\* session request, and the hardcoded default reader is contacted only for UltiPro URLs,
\* never for a URL of another platform.
C9_DefaultProxyOnlyForUltipro ==
    /\ proxy = <<>> => ~HasCall("proxy")
    /\ \A i \in 1..Len(calls) : calls[i].via = DefaultProxy => IsUltiproDomain(url)

\* C10: on every return path the returned title and employer have at most 300
\* characters and the location at most 255; values that are not strings pass through
\* without slicing.
C10_FieldsWithinLimits ==
    /\ StrLen(parsed.title) <= TextMax
    /\ StrLen(parsed.employer) <= TextMax
    /\ StrLen(parsed.location) <= LocationMax

\* C10 witness: a JobPosting node whose title, employer and location exceed the limits
\* was parsed, and the result holds them cut to exactly the limits
C10_Witness ==
    /\ pc = "finish"
    /\ html = "ld_long"
    /\ StrLen(parsed.title) = TextMax
    /\ StrLen(parsed.employer) = TextMax
    /\ StrLen(parsed.location) = LocationMax

\* the registrable domain of a URL: domain label and public suffix, the bare host
\* label when the host has no public suffix
RegistrableDomain(u) ==
    LET ext == TldExtract(Hostname(u))
    IN  IF ext.suffix # <<>> THEN ext.domain \o <<".">> \o ext.suffix ELSE ext.domain

\* parse_job_from_html hands its result to add in this step
ParseReturns == pc \in {"api_path", "api_qs", "html", "forced"} /\ pc' = "finish"

\* C11: in every result parse_job_from_html hands to add, on every return path and for
\* every URL, hosts without a public suffix included, source_site is non-empty and is
\* the registrable domain of the input URL.
C11_SourceSiteIsRegistrableDomain ==
    [][ ParseReturns =>
          /\ parsed'.source_site # <<>>
          /\ parsed'.source_site = RegistrableDomain(url) ]_vars

\* what parse_job_from_html returns for a content and a URL when every network call
\* it makes fails: the API lookup yields nothing and the forced re-fetch raises
OfflineResult(text, u) ==
    LET o == HtmlTiers(text, u)
    IN  IF o.done THEN o.result ELSE AfterForced(text, u, o.hint, Exc)

\* C12: two calls of parse_job_from_html with the same content and URL return the same
\* result, whatever the network calls made during the extraction (API lookup, forced
\* re-fetch) answer. A failing network is one of the possible runs for every content
\* and URL, so the results of all runs agree exactly when every run returns what the
\* run with a failing network returns.
C12_ResultDependsOnInputsOnly ==
    [][ ParseReturns => parsed' = OfflineResult(html, url) ]_vars

\* the titles the platform extractors return for a content
ExtractorTitles(text) == {ParseLinkedin(Soup(text)).title, ParseUltipro(Soup(text)).title}

\* a known placeholder string
IsPlaceholder(v) ==
    IsStr(v) /\ Lower(v.s) \in {<<"j","o","b"," ","d","e","t","a","i","l","s">>, <<"o","p","p","o","r","t","u","n","i","t","y"," ","d","e","t","a","i","l">>}

\* C13: no platform extractor (parse_linkedin_from_html, parse_ultipro_from_html,
\* parse_icims_from_html) returns a known placeholder string such as "Job Details" or
\* "Opportunity Detail" as title: a placeholder counts as absent at every title source.
C13_NoPlaceholderTitle ==
    pc = "parse" => \A t \in ExtractorTitles(html) : ~IsPlaceholder(t)

\* the title the extractor of the URL's platform finds in a content, None for a URL of
\* no recognised platform
PlatformTitle(text, u) ==
    LET domain == TldExtract(Hostname(u)).domain
    IN  IF domain = <<"l","i","n","k","e","d","i","n">> THEN ParseLinkedin(Soup(text)).title
        ELSE IF domain = <<"u","l","t","i","p","r","o">> THEN ParseUltipro(Soup(text)).title
        ELSE None

\* C16: for a URL whose registrable domain belongs to a recognised platform (iCIMS,
\* LinkedIn, UltiPro), when the API and the structured-data tier yield nothing, the
\* platform's extractor runs before the generic tier and its title, when it yields
\* one, is the title returned.
C16_PlatformExtractorDispatched ==
    [][ (/\ pc = "html"
         /\ JobPostings(Soup(html)) = <<>>
         /\ Truthy(PlatformTitle(html, url))) =>
          parsed'.title = PlatformTitle(html, url) ]_vars

\* C14: parse_greenhouse_from_url never raises, for any URL string, malformed ones
\* included, and whatever the API requests answer: no call of parse_job_from_html ends
\* with an exception.
C14_ResolverNeverRaises == error = NoError

\* the API requests made so far, in order
ApiCalls == SelectSeq(calls, LAMBDA c : c.req = "api")

\* the token loop of the resolver has ended
TokenLoopDone == token_i >= 1 /\ pc \in {"html", "forced", "finish", "saved"}

\* C15: for a URL with the job id in its query the resolver asks the API for each
\* candidate token in order, the domain label first and then the label without its
\* "with" prefix; an invalid answer only moves on to the next token, no token is asked
\* after a valid answer, the record of the first valid answer is returned, and the
\* resolver yields nothing exactly when no candidate got a valid answer.
C15_FirstValidTokenWins ==
    (UrlSplits(url) /\ ~HasPathToken(url) /\ JobIdQs(url) # <<>>) =>
        LET tokens == CandidateBoardTokens(Hostname(url))
            n      == Len(ApiCalls)
        IN  /\ n <= Len(tokens)
            /\ \A i \in 1..n : ApiCalls[i].via = tokens[i]
            /\ \A i \in 1..(n - 1) : ApiCalls[i].text # "ok"
            /\ (pc = "api_qs") => (token_i = n + 1 /\ \A i \in 1..n : ApiCalls[i].text # "ok")
            /\ TokenLoopDone =>
                  \/ n = Len(tokens) /\ \A i \in 1..n : ApiCalls[i].text # "ok"
                  \/ n >= 1 /\ ApiCalls[n].text = "ok"
            /\ (TokenLoopDone /\ pc = "finish" /\ ApiCalls[n].text = "ok") =>
                  /\ parsed.employer # None
                  /\ parsed.employer \in
                        { Cap(Or(d.company_name, PrettyToken(tokens[n])), TextMax) :
                              d \in ApiRecords }
                  /\ parsed.title \in { Cap(d.title, TextMax) : d \in ApiRecords }
                  /\ parsed.location = None

\* C15 witness: careers.withacme.com with gh_jid: the first token, withacme, was
\* answered 404, the second, acme, was answered with a record, which is the result
C15_Witness ==
    /\ pc = "finish"
    /\ Len(ApiCalls) = 2
    /\ ApiCalls[1].via = <<"w","i","t","h","a","c","m","e">> /\ ApiCalls[1].text = "404"
    /\ ApiCalls[2].via = <<"a","c","m","e">> /\ ApiCalls[2].text = "ok"
    /\ parsed.title = Str(<<"D","a","t","a"," ","E","n","g","i","n","e","e","r">>)
    /\ parsed.employer = Str(<<"A","c","m","e"," ","I","n","c">>)

\* the forced re-fetch recorded in call c came back with a success status and text
Refetched(c) == c.out # "exc" /\ Ok(c.status) /\ c.text # ""

\* the forced re-fetch recorded in call c brought no title: it failed, or the platform
\* extractor finds no title in its text
NoTitleRefetched(c) == Refetched(c) => ~Truthy(ParseUltipro(Soup(c.text)).title)

\* the employer hint retained once the forced re-fetch recorded in call c is over
FinalHint(c) ==
    IF Refetched(c) THEN HintAfter(ParseUltipro(Soup(c.text)), employer_hint)
    ELSE employer_hint

\* C17: for an UltiPro URL, when the platform extractor finds an employer E but no
\* title, on the fetched content or on the re-fetched one, the page has no
\* og:site_name and the generic tier builds the result, the result's employer is E: the
\* domain-label guess does not displace the retained hint.
C17_EmployerHintSurvives ==
    [][ (/\ pc = "forced"
         /\ pc' = "finish"
         /\ ~Truthy(Soup(html).ogSiteName)
         /\ NoTitleRefetched(calls'[Len(calls')])
         /\ Truthy(FinalHint(calls'[Len(calls')]))) =>
          parsed'.employer = Cap(FinalHint(calls'[Len(calls')]), TextMax) ]_vars

\* the number of forced re-fetches in a call trace
ForcedCount(trace) == Len(SelectSeq(trace, LAMBDA c : c.req = "forced"))

\* C18: for an UltiPro URL that reaches the platform tier, the forced re-fetch is made
\* exactly once if the platform extractor finds no title in the fetched content and
\* not at all if it finds one; the extractor is run on the re-fetched content only
\* when the re-fetch came back with a success status and non-empty text; a failure of
\* the re-fetch raises nothing and the generic tier still builds the result.
C18_ForcedRefetchOnce ==
    [][ /\ (pc = "html" /\ IsUltiproDomain(url) /\ JobPostings(Soup(html)) = <<>>) =>
              IF Truthy(ParseUltipro(Soup(html)).title)
              THEN pc' = "finish" /\ calls' = calls /\ ForcedCount(calls) = 0
              ELSE pc' = "forced" /\ calls' = calls /\ ForcedCount(calls) = 0
        /\ (pc = "forced") =>
              /\ ForcedCount(calls) = 0 /\ ForcedCount(calls') = 1
              /\ pc' = "finish" /\ error' = NoError
              /\ ~Refetched(calls'[Len(calls')]) =>
                    parsed' = GenericTier(Soup(html), url, employer_hint)
              /\ (Refetched(calls'[Len(calls')]) /\ ~NoTitleRefetched(calls'[Len(calls')])) =>
                    parsed'.title = ParseUltipro(Soup(calls'[Len(calls')].text)).title
              /\ NoTitleRefetched(calls'[Len(calls')]) =>
                    parsed'.title = GenericTitle(Soup(html), url)
        /\ (pc # "forced") => ForcedCount(calls') = ForcedCount(calls) ]_vars

\* C18 witness: the page of an UltiPro URL is a JS shell without a title, the one forced
\* re-fetch failed, and the generic tier built the result from the fetched page
C18_Witness ==
    /\ pc = "finish"
    /\ IsUltiproDomain(url)
    /\ html = "ulti_shell"
    /\ ForcedCount(calls) = 1
    /\ calls[Len(calls)].req = "forced" /\ calls[Len(calls)].out = "exc"
    /\ error = NoError
    /\ parsed.title = Str(<<"J","o","b"," ","D","e","t","a","i","l","s">>)

\* parse_job_from_html returns in this step without having run the generic tier: from
\* the API tier, the structured-data tier or the platform tier
EarlyReturn ==
    \/ pc \in {"api_path", "api_qs"} /\ pc' = "finish"
    \/ pc = "html" /\ pc' = "finish"
          /\ (JobPostings(Soup(html)) # <<>> \/ IsUltiproDomain(url))
    \/ pc = "forced" /\ pc' = "finish" /\ ~NoTitleRefetched(calls'[Len(calls')])

\* C19: every early return of parse_job_from_html carries a non-empty title or a
\* non-empty employer: a tier whose output has both fields empty, such as a JobPosting
\* node without title, name and hiring organization, does not stop the lower tiers.
C19_EarlyReturnNotEmpty ==
    [][ EarlyReturn => (Truthy(parsed'.title) \/ Truthy(parsed'.employer)) ]_vars

\* the fetch/extract step of add has failed and add caught the exception
FetchFailed == error.type \in {"RetryError", "ValueError"}

\* at least one of --title and --employer was supplied
Overridden == Truthy(title) \/ Truthy(employer)

\* sheet after holds exactly one row for the URL, with the overrides as title and
\* employer, blank for a missing one, and is otherwise sheet before
SavedOverrides(before, after) ==
    LET old  == {i \in 1..Len(before) : before[i].source_url = url}
        rows == {i \in 1..Len(after) : after[i].source_url = url}
    IN  /\ Cardinality(rows) = 1
        /\ \A i \in rows :
              /\ after[i].title = (IF Truthy(title) THEN title.s ELSE <<>>)
              /\ after[i].employer = (IF Truthy(employer) THEN employer.s ELSE <<>>)
        /\ Len(after) = Len(before) + (IF old = {} THEN 1 ELSE 0)
        /\ \A i \in 1..Len(before) : i \notin old => after[i] = before[i]

\* add aborts with exit code 1 and leaves the sheet as it was
AbortsUnchanged == exit_code' = 1 /\ pc' = "exit" /\ store' = store

\* C20 (as stated): when the fetch/extract step of add fails, without an override the
\* command ends with exit code 1 and the store unchanged; with at least one override it
\* goes on and saves a record for the URL whose title and employer are exactly the
\* overrides, blank for a missing one.
C20_FailureAbortsOrSavesOverrides ==
    [][ /\ (pc = "except" /\ ~Overridden) => AbortsUnchanged
        /\ (pc = "except" /\ Overridden) =>
              (pc' = "finish" /\ exit_code' = -1 /\ store' = store)
        /\ (pc = "finish" /\ FetchFailed) =>
              (pc' = "saved" /\ exit_code' = 0 /\ SavedOverrides(store, store')) ]_vars

\* C20 (amended): as stated, for a --date-applied that is absent or readable as a
\* date; with an override and an unreadable --date-applied the command ends with exit
\* code 2 and the store unchanged.
C20_FailureAbortsOrSavesOverridesOrBadDate ==
    [][ /\ (pc = "except" /\ ~Overridden) => AbortsUnchanged
        /\ (pc = "except" /\ Overridden) =>
              (pc' = "finish" /\ exit_code' = -1 /\ store' = store)
        /\ (pc = "finish" /\ FetchFailed) =>
              \/ pc' = "saved" /\ exit_code' = 0 /\ SavedOverrides(store, store')
              \/ pc' = "exit" /\ exit_code' = 2 /\ store' = store ]_vars

\* C20 witness: every attempt to fetch https://careers.example.com/... failed, only
\* --title was given, and the row the sheet held for the URL now has the override as
\* title and a blank employer
C20_Witness ==
    /\ pc = "saved"
    /\ FetchFailed
    /\ Truthy(title) /\ ~Truthy(employer)
    /\ Len(store) = 1
    /\ store[1].id = 3
    /\ store[1].source_url = url
    /\ store[1].title = <<"M","a","n","u","a","l">>
    /\ store[1].employer = <<>>

\* a text that names the UltiPro platform
NamesUltipro(v) == IsStr(v) /\ IsSubstr(<<"u","l","t","i","p","r","o">>, Lower(v.s))

\* C21: parse_ultipro_from_html never returns the platform's own brand name as
\* employer, whichever source produced it: an og:site_name naming the platform is
\* excluded like a script-embedded company name naming it.
C21_UltiproEmployerNotBrand ==
    pc = "parse" => ~NamesUltipro(ParseUltipro(Soup(html)).employer)

\* a text equal to the LinkedIn brand name, whatever its case and the whitespace
\* around it
IsLinkedinBrand(v) == IsStr(v) /\ Lower(Strip(v.s)) = <<"l","i","n","k","e","d","i","n">>

\* C22: parse_linkedin_from_html never returns an employer equal, case-insensitively
\* and ignoring surrounding whitespace, to the platform's own brand name, whichever
\* source (JSON-LD scan, visible selectors, script blobs) produced the candidate.
C22_LinkedinEmployerNotBrand ==
    pc = "parse" => ~IsLinkedinBrand(ParseLinkedin(Soup(html)).employer)

\* C22 witness: the JSON-LD script of the page names LinkedIn as hiring organization,
\* the scan takes it as candidate, and the extractor returns no employer
C22_Witness ==
    /\ pc = "parse"
    /\ html = "li_posting"
    /\ IsLinkedinBrand(LinkedinScan(Soup(html).ld[1]).employer)
    /\ ParseLinkedin(Soup(html)).title = Str(<<"P","r","o","d","u","c","t"," ","M","a","n","a","g","e","r">>)
    /\ ParseLinkedin(Soup(html)).employer = None

\* the generic tier builds the result in this step
GenericReturns ==
    \/ pc = "html" /\ pc' = "finish"
          /\ JobPostings(Soup(html)) = <<>> /\ ~IsUltiproDomain(url)
    \/ pc = "forced" /\ pc' = "finish" /\ NoTitleRefetched(calls'[Len(calls')])

\* neither a heading, the og:title nor the <title> gives the content a title
NoPageTitle(text) ==
    /\ ~Truthy(H1Title(Soup(text)))
    /\ ~Truthy(Soup(text).ogTitle)
    /\ ~Truthy(TagTitle(Soup(text)))

\* a path segment the slug fallback discards: boilerplate, numeric id (four digits or
\* more, with or without a leading r), GUID-shaped, or upper-case tenant code
Discarded(seg) ==
    \/ Lower(seg) \in SkipSegments
    \/ IsIdSegment(seg)
    \/ IsGuidLike(seg)
    \/ IsUpperAlnumToken(seg)

\* a segment as a title: separators become spaces, the words are title-cased
AsTitle(seg) == Str(Title(Strip(ReplaceChar(ReplaceChar(seg, "-", " "), "_", " "))))

\* the position of the segment the title is derived from, 0 when none remains
SlugPosition(parts) ==
    LET kept   == {i \in 1..Len(parts) : ~Discarded(parts[i])}
        dashed == {i \in kept : "-" \in Range(parts[i]) \/ "_" \in Range(parts[i])}
        from   == IF dashed # {} THEN dashed ELSE kept
    IN  IF from = {} THEN 0 ELSE CHOOSE i \in from : \A j \in from : j <= i

RejectedTitle(v) == IsStr(v) /\ IsGenericTitle(v.s)

\* C25: for an UltiPro URL the title parse_job_from_html finally returns is never a
\* placeholder the UltiPro extractor rejects ("Job Details", "UKG Pro", a text containing
\* "Opportunity Detail"): when the extractor rejected the page's first heading as generic,
\* the generic tier does not hand that same heading back as the title.
C25_UltiproTitleNeverPlaceholder ==
    [][ (ParseReturns /\ IsUltiproDomain(url)) => ~RejectedTitle(parsed'.title) ]_vars

\* no two rows of a sheet have the same source_url
OneRowPerUrl(df) ==
    \A i, j \in 1..Len(df) : df[i].source_url = df[j].source_url => i = j

\* the position of the row of a URL in a sheet, 0 when it has none
RowOf(df, u) == FirstOf({i \in 1..Len(df) : df[i].source_url = u})

\* the call just made is create_or_update
Created == runs'[1].op = "create_or_update"

\* C24: the store is keyed by source URL. Starting from an empty store, after any
\* sequence of create_or_update, update_status and remove_by_id calls there is at most one
\* row per source_url; create_or_update for a URL already stored updates that row's
\* title, employer, status and date in place, keeps its id and leaves every other row
\* unchanged, and for a new URL adds exactly one row.
C24_StoreKeyedByUrl ==
    [][ /\ OneRowPerUrl(store')
        /\ Created =>
             LET data == runs'[1].arg
                 at   == RowOf(store, data.source_url)
             IN  IF at # 0
                 THEN /\ Len(store') = Len(store)
                      /\ \A i \in 1..Len(store) : i # at => store'[i] = store[i]
                      /\ store'[at] = [data EXCEPT !.id = store[at].id]
                 ELSE /\ Len(store') = Len(store) + 1
                      /\ \A i \in 1..Len(store) : store'[i] = store[i]
                      /\ [store'[Len(store')] EXCEPT !.id = 0] = data ]_vars

\* C24 witness: with three rows stored, all rejected, create_or_update for the URL of the
\* middle row has set its title and status and kept its id
C24_Witness ==
    /\ runs[1].op = "create_or_update"
    /\ Len(store) = 3
    /\ RowOf(store, runs[1].arg.source_url) = 2
    /\ store[2] = [runs[1].arg EXCEPT !.id = 2]
    /\ store[2].title = <<"S","t","a","f","f"," ","E","n","g","i","n","e","e","r">>
    /\ store[1].title = <<"E","n","g","i","n","e","e","r">>
    /\ store[1].status = "rejected"
    /\ store[3].status = "rejected"

\* the ids of the rows of a sheet
Ids(df) == {df[i].id : i \in 1..Len(df)}

\* C26: record ids are unique. Starting from an empty store, in every state reachable by
\* create_or_update, update_status and remove_by_id calls no two rows have the same id,
\* and a new row's id is greater than every id stored when it is added (an id freed by
\* remove_by_id may be assigned again later).
C26_IdsUnique ==
    [][ /\ \A i, j \in 1..Len(store') : store'[i].id = store'[j].id => i = j
        /\ (Created /\ Len(store') > Len(store)) =>
              \A n \in Ids(store) : store'[Len(store')].id > n ]_vars

\* C26 witness: the row with id 1 was removed, and the row create_or_update added next
\* has id 3, above the id 2 still stored
C26_Witness ==
    /\ runs[1].op = "create_or_update"
    /\ Len(store) = 2
    /\ store[1].id = 2
    /\ store[2] = [runs[1].arg EXCEPT !.id = 3]

\* both concurrent adds have returned
BothDone == runs[1].pc = "done" /\ runs[2].pc = "done"

\* C27: two add operations (create_or_update) running at the same time for different
\* URLs on the same store file both take effect: in every interleaving of their
\* read-file / modify / write-file steps the final store holds both rows, with distinct
\* ids, and no row stored before is lost: every row a caller found or put in its df is
\* in the store.
C27_ConcurrentAddsBothStored ==
    BothDone =>
        /\ \A p \in 1..2 : \A i \in 1..Len(runs[p].df) :
              RowOf(store, runs[p].df[i].source_url) # 0
        /\ Cardinality(Ids(store)) = Len(store)
====
